---- MODULE Spec2Model ----
(***************************************************************************)
(* Model of the contact-extraction and profile-URL validation core of the  *)
(* LinkedIn contact scraper (src/app.py).                                  *)
(*                                                                         *)
(* Texts and URLs are strings; a string is a sequence of characters, read  *)
(* with Len, SubSeq and \o.  The regular expressions of the source are     *)
(* kept as data (sequences of quantified character classes and anchors)    *)
(* and run by a backtracking matcher with the leftmost, greedy semantics   *)
(* of Python's re module.                                                  *)
(***************************************************************************)
EXTENDS Integers, Sequences, FiniteSets, TLC

VARIABLES
    text,            \* the page text handed to an extractor
    ntok,            \* how many fragments the input was assembled from
    pc,              \* "input" while the input is assembled, then "done"
    emails,          \* what extract_emails_aggressively returned
    phones,          \* what extract_phones_aggressively returned
    url,             \* the URL handed to is_valid_linkedin_profile_url
    verdict,         \* what is_valid_linkedin_profile_url returned
    href,            \* search_with_engine: the href of the result being processed
    idx,             \* search_with_engine: results processed so far
    valid_profiles,  \* search_with_engine: the urls recorded so far
    calls,           \* per worker: the call of a core function it is making
    app,             \* the script the session runs: "app.py" or "scrapper.py"
    rpc,             \* where the scraping run is
    runs,            \* runs started in this session
    scraping_in_progress,  \* st.session_state.scraping_in_progress
    tried,           \* try_multiple_search_engines: the engines tried, with what came of each
    all_profiles,    \* try_multiple_search_engines: all_profiles
    profiles,        \* the profiles the search returned to the run
    pidx,            \* scrape_search_results: profiles processed so far
    all_results,     \* the result records of the run
    failed_pages,    \* st.session_state.failed_pages
    processed        \* what came of each processed profile, in order

\* the state of the workers that call the core functions
callvars == <<calls>>

\* the state of a scraping run
runvars == <<app, rpc, runs, scraping_in_progress, tried, all_profiles, profiles,
             pidx, all_results, failed_pages, processed>>

vars == <<text, ntok, pc, emails, phones, url, verdict, href, idx, valid_profiles,
          callvars, runvars>>

\* the workers that fetch pages and call the core functions on them
Workers == {"w1", "w2"}

\* a worker that is not in a call
NotCalling == [fn |-> "", argtype |-> "", arg |-> "", stage |-> "idle",
               cand |-> <<>>, ret |-> <<>>, ok |-> FALSE, exc |-> "", ncalls |-> 0]

NoCalls == calls = [w \in Workers |-> NotCalling]

\* no scraping run: the session as the script sets it up
NoRun ==
    /\ app = "app.py"
    /\ rpc = "idle"
    /\ runs = 0
    /\ scraping_in_progress = FALSE
    /\ tried = <<>>
    /\ all_profiles = <<>>
    /\ profiles = <<>>
    /\ pidx = 0
    /\ all_results = <<>>
    /\ failed_pages = <<>>
    /\ processed = <<>>

---------------------------------------------------------------------------
(* Bounds of the model *)

\* fragments the input of extract_emails_aggressively is assembled from
MaxEmailFragments == 2

\* fragments the input of extract_phones_aggressively is assembled from
MaxPhoneFragments == 3

\* fragments the input of is_valid_linkedin_profile_url is assembled from
MaxUrlFragments == 3

\* results the search provider returns for one query
MaxResults == 2

---------------------------------------------------------------------------
(* Characters and character classes *)

Char(s, i) == SubSeq(s, i, i)

LowerStr == "abcdefghijklmnopqrstuvwxyz"
UpperStr == "ABCDEFGHIJKLMNOPQRSTUVWXYZ"
DigitStr == "0123456789"

CharsOf(s) == { Char(s, i) : i \in 1..Len(s) }

Lower == CharsOf(LowerStr)
Upper == CharsOf(UpperStr)
Digit == CharsOf(DigitStr)
Alpha == Lower \cup Upper

\* \w, \s of Python's re on the ASCII range
WordCls  == Alpha \cup Digit \cup {"_"}
SpaceCls == {" ", "\t", "\n", "\r", "\f"}

LowerOf == [c \in Upper |-> Char(LowerStr, CHOOSE i \in 1..Len(UpperStr) : Char(UpperStr, i) = c)]

LowerChar(c) == IF c \in Upper THEN LowerOf[c] ELSE c

\* str.lower(): every character lowered (the string is halved at each step,
\* which keeps the evaluation shallow)
RECURSIVE ToLower(_)
ToLower(s) ==
    IF Len(s) = 0 THEN ""
    ELSE IF Len(s) = 1 THEN LowerChar(s)
    ELSE ToLower(SubSeq(s, 1, Len(s) \div 2)) \o ToLower(SubSeq(s, Len(s) \div 2 + 1, Len(s)))

\* sub in s
Contains(s, sub) ==
    \E i \in 0..(Len(s) - Len(sub)) : SubSeq(s, i + 1, i + Len(sub)) = sub

StartsWith(s, pre) == Len(s) >= Len(pre) /\ SubSeq(s, 1, Len(pre)) = pre

Min(S) == CHOOSE m \in S : \A k \in S : m <= k

\* s.replace(old, new): left to right, non-overlapping (one step per occurrence)
RECURSIVE Replace(_, _, _)
Replace(s, old, new) ==
    LET at == { i \in 1..(Len(s) - Len(old) + 1) : SubSeq(s, i, i + Len(old) - 1) = old }
    IN  IF at = {} THEN s
        ELSE SubSeq(s, 1, Min(at) - 1) \o new
                 \o Replace(SubSeq(s, Min(at) + Len(old), Len(s)), old, new)

\* the characters of s that are in cls, in order
RECURSIVE Keep(_, _)
Keep(s, cls) ==
    IF Len(s) = 0 THEN ""
    ELSE IF Len(s) = 1 THEN (IF s \in cls THEN s ELSE "")
    ELSE Keep(SubSeq(s, 1, Len(s) \div 2), cls) \o Keep(SubSeq(s, Len(s) \div 2 + 1, Len(s)), cls)

\* the characters of s that are not in cls, in order: re.sub(r'[cls]', '', s)
RECURSIVE Drop(_, _)
Drop(s, cls) ==
    IF Len(s) = 0 THEN ""
    ELSE IF Len(s) = 1 THEN (IF s \in cls THEN "" ELSE s)
    ELSE Drop(SubSeq(s, 1, Len(s) \div 2), cls) \o Drop(SubSeq(s, Len(s) \div 2 + 1, Len(s)), cls)

---------------------------------------------------------------------------
(* Regular expressions: a pattern is a sequence of alternatives, tried in  *)
(* order; an alternative is a sequence of items; an item is a greedy       *)
(* quantified character class {lo,hi} (hi = -1: unbounded) or an anchor.   *)

One(cls)        == [k |-> "cls", c |-> cls, lo |-> 1, hi |-> 1]
Opt(cls)        == [k |-> "cls", c |-> cls, lo |-> 0, hi |-> 1]
Plus(cls)       == [k |-> "cls", c |-> cls, lo |-> 1, hi |-> -1]
Star(cls)       == [k |-> "cls", c |-> cls, lo |-> 0, hi |-> -1]
Rep(cls, n)     == [k |-> "cls", c |-> cls, lo |-> n, hi |-> n]
AtLeast(cls, n) == [k |-> "cls", c |-> cls, lo |-> n, hi |-> -1]
PlusNot(cls)    == [k |-> "ncls", c |-> cls, lo |-> 1, hi |-> -1]
Lit(ch)         == One({ch})
WordB           == [k |-> "b"]
Bol             == [k |-> "bol"]
Eol             == [k |-> "eol"]

\* \b: between a \w character and a non-\w character or an end of the string
AtWordBoundary(s, pos) ==
    LET before == pos >= 1 /\ Char(s, pos) \in WordCls
        after  == pos < Len(s) /\ Char(s, pos + 1) \in WordCls
    IN  before # after

\* $ without re.MULTILINE: the end of the string, or just before a final newline
AtEnd(s, pos) ==
    \/ pos = Len(s)
    \/ pos = Len(s) - 1 /\ Char(s, Len(s)) = "\n"

\* [...] and [^...]
Accepts(it, ch) == IF it.k = "ncls" THEN ch \notin it.c ELSE ch \in it.c

\* how many characters from position pos on the item accepts, at most hi of them
RunLen(s, pos, it, hi) ==
    LET cap  == IF hi < 0 \/ hi > Len(s) - pos THEN Len(s) - pos ELSE hi
        stop == { n \in 1..cap : ~Accepts(it, Char(s, pos + n)) }
    IN  IF stop = {} THEN cap ELSE Min(stop) - 1

\* the end of the match of items[i..] that starts after pos characters, or -1;
\* a quantified class takes as many characters as it can and gives them back
\* one at a time: the longest run after which the rest matches (the ends of
\* the rest are computed once, as the elements of a set)
RECURSIVE MatchHere(_, _, _, _), Backtrack(_, _, _, _, _)
MatchHere(s, items, i, pos) ==
    IF i > Len(items) THEN pos
    ELSE LET it == items[i] IN
         CASE it.k = "b"   -> IF AtWordBoundary(s, pos) THEN MatchHere(s, items, i + 1, pos) ELSE -1
           [] it.k = "bol" -> IF pos = 0 THEN MatchHere(s, items, i + 1, pos) ELSE -1
           [] it.k = "eol" -> IF AtEnd(s, pos) THEN MatchHere(s, items, i + 1, pos) ELSE -1
           [] OTHER        -> Backtrack(s, items, i, pos, RunLen(s, pos, it, it.hi))

Backtrack(s, items, i, pos, n) ==
    LET Longest(ok) == IF ok = {} THEN -1 ELSE (CHOOSE r \in ok : \A o \in ok : o[1] <= r[1])[2]
    IN  CHOOSE e \in { Longest(ok) : ok \in
            { { r \in { <<m, MatchHere(s, items, i + 1, pos + m)>> : m \in items[i].lo..n } : r[2] >= 0 } } } : TRUE

\* the alternatives of the pattern in order, from alternative a on
RECURSIVE MatchAlts(_, _, _, _)
MatchAlts(s, pat, a, pos) ==
    IF a > Len(pat) THEN -1
    ELSE LET r == MatchHere(s, pat[a], 1, pos)
         IN  IF r >= 0 THEN r ELSE MatchAlts(s, pat, a + 1, pos)

\* the matches of the pattern at every start position: <<start, end>>
MatchesAt(s, pat) ==
    { m \in { <<p, MatchAlts(s, pat, 1, p)>> : p \in 0..Len(s) } : m[2] >= 0 }

\* the leftmost of the matches that start at from or later
Leftmost(ms, from) ==
    CHOOSE m \in ms : m[1] >= from /\ \A o \in ms : o[1] >= from => m[1] <= o[1]

\* the non-overlapping matches, scanning left to right from position from
RECURSIVE Scan(_, _, _)
Scan(s, ms, from) ==
    IF \A m \in ms : m[1] < from THEN <<>>
    ELSE LET m == Leftmost(ms, from)
         IN  <<SubSeq(s, m[1] + 1, m[2])>>
                 \o Scan(s, ms, IF m[2] > m[1] THEN m[2] ELSE m[1] + 1)

\* re.findall(pat, s)
FindAll(s, pat, from) == Scan(s, MatchesAt(s, pat), from)

\* re.search(pat, s): <<start, end>> of the leftmost match, <<-1, -1>> for None
SearchFrom(s, pat, from) ==
    LET ms == { m \in MatchesAt(s, pat) : m[1] >= from }
    IN  IF ms = {} THEN <<-1, -1>> ELSE Leftmost(ms, from)

Search(s, pat) == SearchFrom(s, pat, 0)[1] >= 0

\* re.match(pat, s) is not None
Match(s, pat) == MatchAlts(s, pat, 1, 0) >= 0

Range(f) == { f[i] : i \in DOMAIN f }

---------------------------------------------------------------------------
(* extract_emails_aggressively *)

EmailLocalCls  == Alpha \cup Digit \cup {".", "_", "%", "+", "-"}
EmailDomainCls == Alpha \cup Digit \cup {".", "-"}

\* "[at]" under re.IGNORECASE
AtToken == <<Lit("["), One({"a", "A"}), One({"t", "T"}), Lit("]")>>

EmailTail == <<Plus(EmailDomainCls), Lit("."), AtLeast(Alpha, 2)>>

email_patterns ==
    << <<  <<WordB, Plus(EmailLocalCls), Lit("@")>> \o EmailTail \o <<WordB>>  >>,
       <<  <<Plus(EmailLocalCls), Star(SpaceCls), Lit("@"), Star(SpaceCls)>> \o EmailTail  >>,
       <<  <<Plus(EmailLocalCls)>> \o AtToken \o EmailTail  >>,
       <<  <<Plus(EmailLocalCls), Star(SpaceCls)>> \o AtToken \o <<Star(SpaceCls)>> \o EmailTail  >> >>

all_emails(t) == UNION { Range(FindAll(t, email_patterns[p], 0)) : p \in DOMAIN email_patterns }

\* a clean-up that strips the spaces and leaves the [at] token in place
clean_email_keeping_at(email) == Drop(email, {" "})

clean_email(email) == Drop(Replace(email, "[at]", "@"), {" "})

cleaned_emails(t) == { clean_email(e) : e \in all_emails(t) }

blocked_domains ==
    { "licdn.com", "linkedin.com", "static", "cdn", "img", "facebook.com",
      "twitter.com", "instagram.com", "youtube.com", "example.com", "test.com",
      "localhost", "127.0.0.1", "noreply", "no-reply", "donotreply", "sentry.io",
      "gravatar.com", "googleusercontent.com", "amazonaws.com" }

placeholder_words == { "example", "test", "sample", "dummy", "fake" }

strict_email_pattern ==
    << <<Bol, Plus(EmailLocalCls), Lit("@")>> \o EmailTail \o <<Eol>> >>

\* email.split('@')[0]
BeforeAt(s) ==
    IF Contains(s, "@")
    THEN SubSeq(s, 1, (CHOOSE i \in 1..Len(s) :
                          Char(s, i) = "@" /\ \A j \in 1..(i - 1) : Char(s, j) # "@") - 1)
    ELSE s

\* a blocklist test that asks for every entry instead of any entry
is_blocked_by_all(email_lower) == \A d \in blocked_domains : Contains(email_lower, d)

is_blocked(email_lower) == \E d \in blocked_domains : Contains(email_lower, d)

is_placeholder(email_lower) == \E w \in placeholder_words : Contains(email_lower, w)

bad_length(email) == Len(email) < 5 \/ Len(email) > 50

\* a local-part test that asks for letters only
has_only_letters_in_local(email) == CharsOf(BeforeAt(email)) \subseteq Alpha

has_letter_in_local(email) == CharsOf(BeforeAt(email)) \cap Alpha # {}

email_passes(email) ==
    /\ ~ is_blocked(ToLower(email))
    /\ ~ is_placeholder(ToLower(email))
    /\ ~ bad_length(email)
    /\ Match(email, strict_email_pattern)
    /\ has_letter_in_local(email)

extract_emails_aggressively(t) == { e \in cleaned_emails(t) : email_passes(e) }

---------------------------------------------------------------------------
(* Inputs of the email extractor: page text assembled from fragments *)

\* a run of 43 local-part characters: with "jo@b.co" an address of 50
LongLocal == "xxxxxxxxxxxxxxxxxxxxxxxxxxxxxxxxxxxxxxxxxxx"

\* words of a page, most of them followed by a space
EmailFragments ==
    { "jo@b.co ", "Jo@B.co ", "jane.doe123@gmail.com ", "Reach me at ", "me@ ",
      "john [at] yahoo", " [dot] com ", ".com ", "-j.doe@b.co ",
      "noreply@linkedin.com ", "img@static.licdn.com ", "test@b.co ", "42@b.co ",
      "john @ yahoo.com ", "john\n@ yahoo.com " }

EmailInit ==
    /\ text = ""
    /\ ntok = 0
    /\ pc = "input"
    /\ emails = {}
    /\ phones = {}
    /\ url = ""
    /\ verdict = FALSE
    /\ href = ""
    /\ idx = 0
    /\ valid_profiles = <<>>
    /\ NoCalls
    /\ NoRun

AppendEmailFragment ==
    /\ pc = "input"
    /\ ntok < MaxEmailFragments
    /\ \E f \in EmailFragments : text' = text \o f
    /\ ntok' = ntok + 1
    /\ UNCHANGED <<pc, emails, phones, url, verdict, href, idx, valid_profiles, callvars, runvars>>

\* the text starts with the long run, which leaves room for one more fragment
AppendLongRun ==
    /\ pc = "input"
    /\ ntok = 0
    /\ text' = LongLocal
    /\ ntok' = MaxEmailFragments - 1
    /\ UNCHANGED <<pc, emails, phones, url, verdict, href, idx, valid_profiles, callvars, runvars>>

ExtractEmails ==
    /\ pc = "input"
    /\ emails' = extract_emails_aggressively(text)
    /\ pc' = "done"
    /\ UNCHANGED <<text, ntok, phones, url, verdict, href, idx, valid_profiles, callvars, runvars>>

EmailNext == AppendEmailFragment \/ AppendLongRun \/ ExtractEmails

SpecEmail == EmailInit /\ [][EmailNext]_vars

---------------------------------------------------------------------------
(* extract_phones_aggressively *)

Mobile69 == {"6", "7", "8", "9"}
PhoneSep == {"-"} \cup SpaceCls

\* \+91[-\s]?
Plus91 == <<Lit("+"), Lit("9"), Lit("1"), Opt(PhoneSep)>>

\* (?:X)?Y tries X Y first and Y alone after it
OptionalPrefix(x, y) == <<x \o y, y>>

phone_patterns ==
    << OptionalPrefix(Plus91, <<One(Mobile69), Rep(Digit, 4), Opt(PhoneSep), Rep(Digit, 5)>>),
       << Plus91 \o <<One(Mobile69), Rep(Digit, 9)>> >>,
       OptionalPrefix(Plus91, <<One(Mobile69), One(Digit), Opt(PhoneSep), Rep(Digit, 4),
                                Opt(PhoneSep), Rep(Digit, 4)>>),
       << <<One(Mobile69), Rep(Digit, 2), Opt(PhoneSep), Rep(Digit, 3), Opt(PhoneSep), Rep(Digit, 4)>> >>,
       << <<One(Mobile69), Rep(Digit, 2), Lit("."), Rep(Digit, 3), Lit("."), Rep(Digit, 4)>> >>,
       << <<WordB, One(Mobile69), Rep(Digit, 9), WordB>> >> >>

all_phones(t) == UNION { Range(FindAll(t, phone_patterns[p], 0)) : p \in DOMAIN phone_patterns }

\* re.sub(r'\D', '', phone)
digits_only(phone) == Keep(phone, Digit)

\* str.strip()
RECURSIVE LStrip(_), RStrip(_)
LStrip(s) == IF s # "" /\ Char(s, 1) \in SpaceCls THEN LStrip(Tail(s)) ELSE s
RStrip(s) == IF s # "" /\ Char(s, Len(s)) \in SpaceCls THEN RStrip(SubSeq(s, 1, Len(s) - 1)) ELSE s
Strip(s) == RStrip(LStrip(s))

is_indian_mobile(digits) ==
    \/ Len(digits) = 10 /\ Char(digits, 1) \in Mobile69
    \/ Len(digits) = 12 /\ StartsWith(digits, "91") /\ Char(digits, 3) \in Mobile69

valid_phones(t) == { Strip(phone) : phone \in { ph \in all_phones(t) : is_indian_mobile(digits_only(ph)) } }

fake_patterns ==
    { "1234567890", "9876543210", "0000000000", "1111111111",
      "2222222222", "3333333333", "4444444444", "5555555555",
      "6666666666", "7777777777", "8888888888", "9999999999" }

is_fake(digits) == \E f \in fake_patterns : Contains(digits, f)

\* digits[-10:]
LastTen(digits) == SubSeq(digits, IF Len(digits) > 10 THEN Len(digits) - 9 ELSE 1, Len(digits))

\* a variety test with a threshold of 3
has_variety_of_three(digits) == Cardinality(CharsOf(LastTen(digits))) >= 3

has_variety(digits) == Cardinality(CharsOf(LastTen(digits))) >= 4

extract_phones_aggressively(t) ==
    { phone \in valid_phones(t) : ~ is_fake(digits_only(phone)) /\ has_variety(digits_only(phone)) }

---------------------------------------------------------------------------
(* Inputs of the phone extractor: page text assembled from fragments *)

PhoneFragments ==
    { "9876512345", "98765-12345", "+91", " ", "-", "12",
      "9876543210", "6666666666", "9898787878", "987.651.2345" }

PhoneInit ==
    /\ text = ""
    /\ ntok = 0
    /\ pc = "input"
    /\ emails = {}
    /\ phones = {}
    /\ url = ""
    /\ verdict = FALSE
    /\ href = ""
    /\ idx = 0
    /\ valid_profiles = <<>>
    /\ NoCalls
    /\ NoRun

AppendPhoneFragment ==
    /\ pc = "input"
    /\ ntok < MaxPhoneFragments
    /\ \E f \in PhoneFragments : text' = text \o f
    /\ ntok' = ntok + 1
    /\ UNCHANGED <<pc, emails, phones, url, verdict, href, idx, valid_profiles, callvars, runvars>>

ExtractPhones ==
    /\ pc = "input"
    /\ phones' = extract_phones_aggressively(text)
    /\ pc' = "done"
    /\ UNCHANGED <<text, ntok, emails, url, verdict, href, idx, valid_profiles, callvars, runvars>>

PhoneNext == AppendPhoneFragment \/ ExtractPhones

SpecPhone == PhoneInit /\ [][PhoneNext]_vars

---------------------------------------------------------------------------
(* is_valid_linkedin_profile_url *)

\* the characters of a string as literal items
LitStr(str) == [i \in 1..Len(str) |-> Lit(Char(str, i))]

\* an exclusion list without the search engine's domain
garbage_patterns_without_google ==
    { "/company/", "/jobs/", "/pulse/", "/posts/", "/groups/",
      "/events/", "/school/", "/showcase/", "dir/", "/topic/",
      "facebook.com", "twitter.com", "redirect" }

garbage_patterns ==
    { "/company/", "/jobs/", "/pulse/", "/posts/", "/groups/",
      "/events/", "/school/", "/showcase/", "dir/", "/topic/",
      "google.com", "facebook.com", "twitter.com", "redirect" }

SlugCls == Alpha \cup Digit \cup {"-", "_", "%"}

\* linkedin\.com/in/[a-zA-Z0-9\-_%]+/?$
profile_pattern == << LitStr("linkedin.com/in/") \o <<Plus(SlugCls), Opt({"/"}), Eol>> >>

is_garbage(url_lower) == \E g \in garbage_patterns : Contains(url_lower, g)

has_profile_path(u) == Search(u, profile_pattern)

is_valid_linkedin_profile_url(u) ==
    /\ u # ""
    /\ Contains(ToLower(u), "linkedin.com/in/")
    /\ ~ is_garbage(ToLower(u))
    /\ has_profile_path(u)

---------------------------------------------------------------------------
(* Inputs of the validator: URLs assembled from fragments *)

UrlFragments ==
    { "https://www.linkedin.com/in/", "https://www.LinkedIn.com/in/",
      "https://www.linkedin.com/company/acme", "https://www.google.com/url?q=",
      "jane-doe-12345", "nadir", "redirect", "a_b%20c", "/", "\n", "?trk=x" }

UrlInit ==
    /\ text = ""
    /\ ntok = 0
    /\ pc = "input"
    /\ emails = {}
    /\ phones = {}
    /\ url = ""
    /\ verdict = FALSE
    /\ href = ""
    /\ idx = 0
    /\ valid_profiles = <<>>
    /\ NoCalls
    /\ NoRun

AppendUrlFragment ==
    /\ pc = "input"
    /\ ntok < MaxUrlFragments
    /\ \E f \in UrlFragments : url' = url \o f
    /\ ntok' = ntok + 1
    /\ UNCHANGED <<text, pc, emails, phones, verdict, href, idx, valid_profiles, callvars, runvars>>

ValidateUrl ==
    /\ pc = "input"
    /\ verdict' = is_valid_linkedin_profile_url(url)
    /\ pc' = "done"
    /\ UNCHANGED <<text, ntok, emails, phones, url, href, idx, valid_profiles, callvars, runvars>>

UrlNext == AppendUrlFragment \/ ValidateUrl

SpecUrl == UrlInit /\ [][UrlNext]_vars

---------------------------------------------------------------------------
(* search_with_engine: the loop over the search results *)

HexStr == "0123456789abcdef"
HexCls == CharsOf(HexStr) \cup CharsOf("ABCDEF")

HexVal(c) == (CHOOSE i \in 1..Len(HexStr) : Char(HexStr, i) = LowerChar(c)) - 1

\* the characters a %xx escape stands for, by character code: the unreserved
\* characters and the URL punctuation "%", "&", "=", "?", " " (the inputs of the
\* model hold no other escapes)
UrlPunctStr == "-./0123456789:"

Decodable(code) ==
    \/ code \in {32, 37, 38, 61, 63, 95}
    \/ code \in 45..58
    \/ code \in 65..90
    \/ code \in 97..122

CharOfCode(code) ==
    CASE code \in 45..58  -> Char(UrlPunctStr, code - 44)
      [] code \in 65..90  -> Char(UpperStr, code - 64)
      [] code \in 97..122 -> Char(LowerStr, code - 96)
      [] code = 32 -> " "
      [] code = 37 -> "%"
      [] code = 38 -> "&"
      [] code = 61 -> "="
      [] code = 63 -> "?"
      [] code = 95 -> "_"

IsEscape(s) ==
    /\ Len(s) >= 3
    /\ Char(s, 1) = "%"
    /\ Char(s, 2) \in HexCls
    /\ Char(s, 3) \in HexCls
    /\ Decodable(16 * HexVal(Char(s, 2)) + HexVal(Char(s, 3)))

\* urllib.parse.unquote
RECURSIVE Unquote(_)
Unquote(s) ==
    LET at == { i \in 1..Len(s) : IsEscape(SubSeq(s, i, Len(s))) }
    IN  IF at = {} THEN s
        ELSE LET i == Min(at)
             IN  SubSeq(s, 1, i - 1)
                     \o CharOfCode(16 * HexVal(Char(s, i + 1)) + HexVal(Char(s, i + 2)))
                     \o Unquote(SubSeq(s, i + 3, Len(s)))

\* url=([^&]+)
redirect_pattern == << LitStr("url=") \o <<PlusNot({"&"})>> >>

\* match.group(1) of re.search(r'url=([^&]+)', link)
redirect_target(link) ==
    LET m == SearchFrom(link, redirect_pattern, 0)
    IN  SubSeq(link, m[1] + 5, m[2])

\* "Fix relative URLs": a link that starts with /url? and carries url=... is
\* replaced by the unquoted value of that parameter
fix_link(link) ==
    IF StartsWith(link, "/url?") /\ Search(link, redirect_pattern)
    THEN Unquote(redirect_target(link))
    ELSE link

\* the href values of the search provider: prefix, target, suffix
HrefPrefixes == { "", "/url?q=", "/url?url=", "https://www.google.com/url?q=" }
HrefTargets ==
    { "https://www.linkedin.com/in/jane-doe",
      "https%3A%2F%2Fwww.linkedin.com%2Fin%2Fjane-doe",
      "https://www.linkedin.com/company/acme/",
      "/in/jane-doe",
      "https://evil.example/linkedin.com/in/jane-doe" }
HrefSuffixes == { "", "&sa=U" }

Hrefs == { p \o t \o x : p \in HrefPrefixes, t \in HrefTargets, x \in HrefSuffixes }

SearchInit ==
    /\ text = ""
    /\ ntok = 0
    /\ pc = "loop"
    /\ emails = {}
    /\ phones = {}
    /\ url = ""
    /\ verdict = FALSE
    /\ href = ""
    /\ idx = 0
    /\ valid_profiles = <<>>
    /\ NoCalls
    /\ NoRun

\* one iteration of the loop over the results, for a result with a title and
\* a link element
ProcessResult ==
    /\ pc = "loop"
    /\ idx < MaxResults
    /\ \E h \in Hrefs :
          LET link == fix_link(h)
              ok   == is_valid_linkedin_profile_url(link)
          IN  /\ href' = h
              /\ url' = link
              /\ verdict' = ok
              /\ valid_profiles' = IF ok THEN Append(valid_profiles, link) ELSE valid_profiles
    /\ idx' = idx + 1
    /\ UNCHANGED <<text, ntok, pc, emails, phones, callvars, runvars>>

\* an iteration that ends in `continue`: the title or link element is
\* missing, or reading it raised
SkipResult ==
    /\ pc = "loop"
    /\ idx < MaxResults
    /\ idx' = idx + 1
    /\ UNCHANGED <<text, ntok, pc, emails, phones, url, verdict, href, valid_profiles, callvars, runvars>>

\* return valid_profiles
ReturnProfiles ==
    /\ pc = "loop"
    /\ pc' = "done"
    /\ UNCHANGED <<text, ntok, emails, phones, url, verdict, href, idx, valid_profiles, callvars, runvars>>

SearchNext == ProcessResult \/ SkipResult \/ ReturnProfiles

SpecSearch == SearchInit /\ [][SearchNext]_vars

---------------------------------------------------------------------------
(* The core functions as the workers call them: the lists the code builds,  *)
(* step by step, and the Python type of the argument.                       *)

\* calls one worker makes
MaxCalls == 2

\* the concatenation of the sequences seqs[1], seqs[2], ...
RECURSIVE Concat(_)
Concat(seqs) == IF seqs = <<>> THEN <<>> ELSE Head(seqs) \o Concat(Tail(seqs))

\* the lists without repetition that hold exactly the elements of S: the
\* orders in which a Python set can be iterated
Orderings(S) == { l \in [1..Cardinality(S) -> S] : Range(l) = S }

\* a list handed on as it is
list_as_is(l) == {l}

\* list(set(l))
list_of_set(l) == Orderings(Range(l))

\* the candidates of every worker that is inside a call, in one list
RECURSIVE CandidatesOf(_)
CandidatesOf(ws) ==
    IF ws = {} THEN <<>>
    ELSE LET w == CHOOSE x \in ws : TRUE IN calls[w].cand \o CandidatesOf(ws \ {w})

\* a list of matches that lives outside the call and is shared by the workers
all_emails_in_shared_list(t) ==
    CandidatesOf(Workers) \o Concat([p \in DOMAIN email_patterns |-> FindAll(t, email_patterns[p], 0)])

\* all_emails after the loop over the patterns
all_emails_list(t) ==
    Concat([p \in DOMAIN email_patterns |-> FindAll(t, email_patterns[p], 0)])

\* cleaned_emails
cleaned_emails_list(l) == [i \in DOMAIN l |-> clean_email(l[i])]

\* valid_emails after the filter loop
valid_emails_list(l) == SelectSeq(l, email_passes)

\* all_phones after the loop over the patterns
all_phones_list(t) ==
    Concat([p \in DOMAIN phone_patterns |-> FindAll(t, phone_patterns[p], 0)])

passes_digit_count(phone) == is_indian_mobile(digits_only(phone))

\* valid_phones after the clean-and-validate loop
valid_phones_list(l) ==
    LET kept == SelectSeq(l, passes_digit_count)
    IN  [i \in DOMAIN kept |-> Strip(kept[i])]

\* the phones the loop over set(valid_phones) appends
kept_phones(l) ==
    { phone \in Range(l) : ~ is_fake(digits_only(phone)) /\ has_variety(digits_only(phone)) }

\* `not x` of Python for the argument types of the model
Falsy(argtype, arg) ==
    \/ argtype = "NoneType"
    \/ argtype \in {"str", "bytes"} /\ arg = ""
    \/ argtype = "int" /\ arg = "0"

\* the arguments the workers pass: the Python type and the value as text
EmailArgs ==
    { <<"str", "">>, <<"str", "jo@b.co Jo@B.co ">>, <<"str", "jane.doe123@gmail.com">>,
      <<"str", "\f#\t@\n.">>, <<"NoneType", "">>, <<"bytes", "jo@b.co">> }

PhoneArgs ==
    { <<"str", "">>, <<"str", "9876512345 98765-12345">>, <<"str", "\f#\t@\n.">>,
      <<"NoneType", "">>, <<"int", "9876512345">> }

UrlArgs ==
    { <<"str", "">>, <<"str", "https://www.linkedin.com/in/jane-doe">>,
      <<"str", "linkedin.com/in/">>, <<"NoneType", "">>, <<"int", "0">>,
      <<"int", "5">>, <<"bytes", "https://www.linkedin.com/in/jane-doe">> }

ArgsOf(fn) ==
    CASE fn = "extract_emails_aggressively"   -> EmailArgs
      [] fn = "extract_phones_aggressively"   -> PhoneArgs
      [] fn = "is_valid_linkedin_profile_url" -> UrlArgs

CoreFunctions ==
    { "extract_emails_aggressively", "extract_phones_aggressively",
      "is_valid_linkedin_profile_url" }

CallsInit ==
    /\ text = ""
    /\ ntok = 0
    /\ pc = "calls"
    /\ emails = {}
    /\ phones = {}
    /\ url = ""
    /\ verdict = FALSE
    /\ href = ""
    /\ idx = 0
    /\ valid_profiles = <<>>
    /\ NoCalls
    /\ NoRun

core == <<text, ntok, pc, emails, phones, url, verdict, href, idx, valid_profiles>>

InCall(w, fn, stage) == calls[w].fn = fn /\ calls[w].stage = stage

\* a worker that is not inside a call calls one of the functions
Call(w) ==
    /\ calls[w].stage \in {"idle", "returned", "raised"}
    /\ calls[w].ncalls < MaxCalls
    /\ \E fn \in CoreFunctions : \E a \in ArgsOf(fn) :
          calls' = [calls EXCEPT ![w] =
                       [NotCalling EXCEPT !.fn = fn, !.argtype = a[1], !.arg = a[2],
                                          !.stage = "called",
                                          !.ncalls = calls[w].ncalls + 1]]
    /\ UNCHANGED <<core, runvars>>

\* is_valid_linkedin_profile_url: `not url`, then url.lower(), the substring
\* tests and the pattern
Validate(w) ==
    /\ InCall(w, "is_valid_linkedin_profile_url", "called")
    /\ LET c == calls[w] IN
       calls' = [calls EXCEPT ![w] =
           IF Falsy(c.argtype, c.arg) THEN [c EXCEPT !.stage = "returned", !.ok = FALSE]
           ELSE IF c.argtype = "str"
                THEN [c EXCEPT !.stage = "returned", !.ok = is_valid_linkedin_profile_url(c.arg)]
           ELSE IF c.argtype = "bytes" THEN [c EXCEPT !.stage = "raised", !.exc = "TypeError"]
           ELSE [c EXCEPT !.stage = "raised", !.exc = "AttributeError"]]
    /\ UNCHANGED <<core, runvars>>

\* extract_emails_aggressively: the loop over the patterns; re.findall raises
\* TypeError for an argument that is not a string
MatchEmails(w) ==
    /\ InCall(w, "extract_emails_aggressively", "called")
    /\ LET c == calls[w] IN
       calls' = [calls EXCEPT ![w] =
           IF c.argtype = "str"
           THEN [c EXCEPT !.stage = "matched", !.cand = all_emails_list(c.arg)]
           ELSE [c EXCEPT !.stage = "raised", !.exc = "TypeError"]]
    /\ UNCHANGED <<core, runvars>>

CleanEmails(w) ==
    /\ InCall(w, "extract_emails_aggressively", "matched")
    /\ calls' = [calls EXCEPT ![w].stage = "cleaned",
                              ![w].cand = cleaned_emails_list(calls[w].cand)]
    /\ UNCHANGED <<core, runvars>>

FilterEmails(w) ==
    /\ InCall(w, "extract_emails_aggressively", "cleaned")
    /\ calls' = [calls EXCEPT ![w].stage = "filtered",
                              ![w].cand = valid_emails_list(calls[w].cand)]
    /\ UNCHANGED <<core, runvars>>

\* return list(set(valid_emails)); the lists of the call are gone with it
ReturnEmails(w) ==
    /\ InCall(w, "extract_emails_aggressively", "filtered")
    /\ \E l \in list_of_set(calls[w].cand) :
          calls' = [calls EXCEPT ![w].stage = "returned", ![w].ret = l, ![w].cand = <<>>]
    /\ UNCHANGED <<core, runvars>>

\* extract_phones_aggressively: the loop over the patterns
MatchPhones(w) ==
    /\ InCall(w, "extract_phones_aggressively", "called")
    /\ LET c == calls[w] IN
       calls' = [calls EXCEPT ![w] =
           IF c.argtype = "str"
           THEN [c EXCEPT !.stage = "matched", !.cand = all_phones_list(c.arg)]
           ELSE [c EXCEPT !.stage = "raised", !.exc = "TypeError"]]
    /\ UNCHANGED <<core, runvars>>

ValidatePhones(w) ==
    /\ InCall(w, "extract_phones_aggressively", "matched")
    /\ calls' = [calls EXCEPT ![w].stage = "validated",
                              ![w].cand = valid_phones_list(calls[w].cand)]
    /\ UNCHANGED <<core, runvars>>

\* the loop over set(valid_phones) and the return
ReturnPhones(w) ==
    /\ InCall(w, "extract_phones_aggressively", "validated")
    /\ \E l \in Orderings(kept_phones(calls[w].cand)) :
          calls' = [calls EXCEPT ![w].stage = "returned", ![w].ret = l, ![w].cand = <<>>]
    /\ UNCHANGED <<core, runvars>>

\* the steps inside a call
Proceed(w) ==
    \/ Validate(w)
    \/ MatchEmails(w) \/ CleanEmails(w) \/ FilterEmails(w) \/ ReturnEmails(w)
    \/ MatchPhones(w) \/ ValidatePhones(w) \/ ReturnPhones(w)

CallsNext == \E w \in Workers : Call(w) \/ Proceed(w)

SpecCalls == CallsInit /\ [][CallsNext]_vars

\* one worker on its own
Caller == CHOOSE w \in Workers : TRUE

CallerNext == Call(Caller) \/ Proceed(Caller)

\* the worker is inside a call: exactly then a step of Proceed is possible
Busy(w) == calls[w].stage \notin {"idle", "returned", "raised"}

\* weak fairness of Proceed(w), that is WF_vars(Proceed(w)), with
\* ENABLED <<Proceed(w)>>_vars written out as Busy(w)
ProceedsFairly(w) == []<>(~ Busy(w)) \/ []<><<Proceed(w)>>_vars

\* a call, once made, runs on: the functions are synchronous and wait for nothing
SpecCallerFair == CallsInit /\ [][CallerNext]_vars /\ ProceedsFairly(Caller)

---------------------------------------------------------------------------
(* try_multiple_search_engines *)

\* profiles one engine finds for a query
MaxFound == 4

\* the order of the search engine select box of the sidebar
engines_of_the_select_box == <<"DuckDuckGo", "Bing", "Google">>

engines == <<"DuckDuckGo", "Google", "Bing">>

\* links on the result pages
ResultLinks ==
    { "https://www.linkedin.com/in/jane-doe", "https://in.linkedin.com/in/raj-k/",
      "https://www.linkedin.com/in/a_b%20c", "https://www.linkedin.com/in/li-wei",
      "https://www.linkedin.com/company/acme/" }

\* the links search_with_engine keeps
FoundUrls == { u \in ResultLinks : is_valid_linkedin_profile_url(u) }

\* the lists search_with_engine can return when it finds something
FoundLists == UNION { [1..n -> FoundUrls] : n \in 1..MaxFound }

\* what search_with_engine recorded for the links, for one engine
profiles_of(links, engine) == [i \in DOMAIN links |-> [url |-> links[i], engine |-> engine]]

\* "Remove duplicates": the first profile of every url, in order
unique_profiles(ps) ==
    LET first == { i \in DOMAIN ps : \A j \in 1..(i - 1) : ps[j].url # ps[i].url }
        nth(k) == CHOOSE i \in first : Cardinality({ j \in first : j < i }) = k - 1
    IN  [k \in 1..Cardinality(first) |-> ps[nth(k)]]

\* the state of everything but the run
others == <<core, callvars>>

EnginesInit ==
    /\ text = ""
    /\ ntok = 0
    /\ pc = "run"
    /\ emails = {}
    /\ phones = {}
    /\ url = ""
    /\ verdict = FALSE
    /\ href = ""
    /\ idx = 0
    /\ valid_profiles = <<>>
    /\ NoCalls
    /\ app = "app.py"
    /\ rpc = "engines"
    /\ runs = 1
    /\ scraping_in_progress = TRUE
    /\ tried = <<>>
    /\ all_profiles = <<>>
    /\ profiles = <<>>
    /\ pidx = 0
    /\ all_results = <<>>
    /\ failed_pages = <<>>
    /\ processed = <<>>

\* where the loop over the engines goes after an engine that found nothing
AfterEngine(n) == IF n = Len(engines) THEN "dedupe" ELSE "engines"

\* one turn of the loop over the engines: search_with_engine raises, returns
\* nothing, or returns profiles (and the loop is left)
TryEngine ==
    /\ rpc = "engines"
    /\ Len(tried) < Len(engines)
    /\ LET engine == engines[Len(tried) + 1] IN
          \/ /\ \E outcome \in {"error", "empty"} :
                    tried' = Append(tried, [engine |-> engine, outcome |-> outcome])
             /\ rpc' = AfterEngine(Len(tried) + 1)
             /\ UNCHANGED all_profiles
          \/ /\ tried' = Append(tried, [engine |-> engine, outcome |-> "profiles"])
             /\ \E links \in FoundLists :
                    all_profiles' = all_profiles \o profiles_of(links, engine)
             /\ rpc' = "dedupe"
    /\ UNCHANGED <<others, app, runs, scraping_in_progress, profiles, pidx,
                   all_results, failed_pages, processed>>

\* the loop that removes duplicates, and the return
ReturnUniqueProfiles ==
    /\ rpc = "dedupe"
    /\ profiles' = unique_profiles(all_profiles)
    /\ rpc' = "searched"
    /\ UNCHANGED <<others, app, runs, scraping_in_progress, tried, all_profiles, pidx,
                   all_results, failed_pages, processed>>

EnginesNext == TryEngine \/ ReturnUniqueProfiles

SpecEngines == EnginesInit /\ [][EnginesNext]_vars

---------------------------------------------------------------------------
(* A scraping run of app.py: the button, run_scraping and                   *)
(* scrape_search_results                                                    *)

\* runs started in one session
MaxRuns == 2

\* the "Max profiles per page" slider at its lowest setting
max_profiles_per_page == 3

\* the text fields of the sidebar
Keywords == {"", "  ", "developer"}

\* what scrape_profile_content returns for a profile page
PageTexts ==
    { "Jane Doe | LinkedIn",
      "Raj K - mail raj.k@gmail.com or jo@b.co, call 98765-12345" }

\* the contacts of the page texts, extracted once
ContactsOfPages ==
    { <<t, extract_emails_aggressively(t), extract_phones_aggressively(t)>> : t \in PageTexts }

ContactsOf(t) == CHOOSE c \in ContactsOfPages : c[1] = t

\* a profile is recorded only when a contact was found on it
records_profile_with_contact_only(found_emails, found_phones) ==
    found_emails # {} \/ found_phones # {}

\* "Always add profile, even without contact info"
records_profile(found_emails, found_phones) == TRUE

\* valid_profiles[:max_profiles_per_page]
limited(ps) ==
    SubSeq(ps, 1, IF Len(ps) < max_profiles_per_page THEN Len(ps) ELSE max_profiles_per_page)

\* the lists try_multiple_search_engines can return: the profiles of one
\* engine, every url once
SearchResults ==
    { unique_profiles(profiles_of(links, e)) :
          links \in FoundLists \cup {<<>>}, e \in Range(engines) }

RunInit ==
    /\ text = ""
    /\ ntok = 0
    /\ pc = "run"
    /\ emails = {}
    /\ phones = {}
    /\ url = ""
    /\ verdict = FALSE
    /\ href = ""
    /\ idx = 0
    /\ valid_profiles = <<>>
    /\ NoCalls
    /\ app \in {"app.py", "scrapper.py"}
    /\ rpc = "idle"
    /\ runs = 0
    /\ scraping_in_progress = FALSE
    /\ tried = <<>>
    /\ all_profiles = <<>>
    /\ profiles = <<>>
    /\ pidx = 0
    /\ all_results = <<>>
    /\ failed_pages = <<>>
    /\ processed = <<>>

\* str.strip() leaves nothing
IsBlank(k) == Strip(k) = ""

\* the `finally` of scrape_search_results (and the `except` of run_scraping)
EndRun ==
    /\ scraping_in_progress' = FALSE
    /\ rpc' = "ended"

\* the button is pressed while it is enabled: run_scraping, and
\* scrape_search_results up to the search
StartScraping ==
    /\ app = "app.py"
    /\ rpc = "idle"
    /\ ~ scraping_in_progress
    /\ runs < MaxRuns
    /\ runs' = runs + 1
    /\ \E keyword \in Keywords : \E progress_bar \in {"shown", "raises"} :
          IF IsBlank(keyword)
          THEN /\ rpc' = "ended"
               /\ UNCHANGED <<scraping_in_progress, profiles, pidx, all_results,
                              failed_pages, processed>>
          ELSE /\ failed_pages' = <<>>
               /\ profiles' = <<>>
               /\ pidx' = 0
               /\ all_results' = <<>>
               /\ processed' = <<>>
               /\ IF progress_bar = "raises"
                  THEN EndRun
                  ELSE scraping_in_progress' = TRUE /\ rpc' = "search"
    /\ UNCHANGED <<others, app, tried, all_profiles>>

\* valid_profiles = await try_multiple_search_engines(keyword, location), and
\* the return when nothing was found
SearchProfiles ==
    /\ rpc = "search"
    /\ \/ /\ \E found \in SearchResults :
                /\ profiles' = found
                /\ IF found = <<>> THEN EndRun
                   ELSE rpc' = "setup" /\ UNCHANGED scraping_in_progress
       \/ \* the search raises
          /\ EndRun
          /\ UNCHANGED profiles
    /\ UNCHANGED <<others, app, runs, tried, all_profiles, pidx, all_results,
                   failed_pages, processed>>

\* setup_browser: a browser, no browser, or an exception
SetupBrowser ==
    /\ rpc = "setup"
    /\ \E browser \in {"launched", "none", "raises"} :
          IF browser = "launched"
          THEN rpc' = "profiles" /\ UNCHANGED scraping_in_progress
          ELSE EndRun
    /\ UNCHANGED <<others, app, runs, tried, all_profiles, profiles, pidx, all_results,
                   failed_pages, processed>>

\* the record of a profile, as scrape_search_results builds it
result_data(profile, found_emails, found_phones) ==
    [ Profile_URL   |-> profile.url,
      Emails        |-> found_emails,
      Phones        |-> found_phones,
      Email_Count   |-> Cardinality(found_emails),
      Phone_Count   |-> Cardinality(found_phones),
      Search_Engine |-> profile.engine ]

\* one turn of the loop over valid_profiles[:max_profiles_per_page]
ProcessProfile ==
    /\ rpc = "profiles"
    /\ pidx < Len(limited(profiles))
    /\ pidx' = pidx + 1
    /\ LET profile == profiles[pidx + 1] IN
          \/ \* context.new_page() raises: the outer `except`, continue
             /\ processed' = Append(processed, [url |-> profile.url, outcome |-> "no page"])
             /\ UNCHANGED <<all_results, failed_pages>>
          \/ \* fetching the content or extracting raises: the inner `except`
             /\ processed' = Append(processed, [url |-> profile.url, outcome |-> "raised"])
             /\ failed_pages' = Append(failed_pages, [url |-> profile.url])
             /\ UNCHANGED all_results
          \/ \* the content is fetched and the contacts are extracted; the
             \* status message after the record may raise (the inner `except`),
             \* closing the page or the delay may raise (the outer `except`)
             \E content \in PageTexts : \E after \in {"fine", "status raises", "raises"} :
                LET found == ContactsOf(content) IN
                /\ processed' = Append(processed, [url |-> profile.url, outcome |-> "extracted",
                                                   emails |-> found[2], phones |-> found[3]])
                /\ all_results' = IF records_profile(found[2], found[3])
                                  THEN Append(all_results, result_data(profile, found[2], found[3]))
                                  ELSE all_results
                /\ failed_pages' = IF after = "status raises"
                                   THEN Append(failed_pages, [url |-> profile.url])
                                   ELSE failed_pages
    /\ UNCHANGED <<others, app, rpc, runs, scraping_in_progress, tried, all_profiles, profiles>>

\* after the loop: the browser is closed, the summary is shown, `finally`
FinishRun ==
    /\ rpc = "profiles"
    /\ pidx = Len(limited(profiles))
    /\ EndRun
    /\ UNCHANGED <<others, app, runs, tried, all_profiles, profiles, pidx, all_results,
                   failed_pages, processed>>

\* the script runs again and shows the button
Rerun ==
    /\ rpc = "ended"
    /\ rpc' = "idle"
    /\ UNCHANGED <<others, app, runs, scraping_in_progress, tried, all_profiles, profiles,
                   pidx, all_results, failed_pages, processed>>

---------------------------------------------------------------------------
(* A scraping run of scrapper.py: the button and perform_scraping           *)

\* the "Number of pages to scrape" slider at its default
pages_to_scrape == 2

\* the links of the results of a page that are on linkedin.com
LegacyLinks == { "https://www.linkedin.com/in/jane-doe", "https://www.linkedin.com/in/raj-k" }

\* the records a page adds: none, one or two
LegacyPageRecords(page) ==
    { <<>> }
        \cup { <<[Link |-> l, Page |-> page]>> : l \in LegacyLinks }
        \cup { <<[Link |-> l, Page |-> page], [Link |-> m, Page |-> page]>> :
                   l \in LegacyLinks, m \in LegacyLinks }

\* the button is pressed while it is enabled: perform_scraping up to the `try`
StartLegacy ==
    /\ app = "scrapper.py"
    /\ rpc = "idle"
    /\ ~ scraping_in_progress
    /\ runs < MaxRuns
    /\ runs' = runs + 1
    /\ \E keyword \in Keywords : \E driver \in {"started", "none"} :
       \E progress_bar \in {"shown", "raises"} :
          IF IsBlank(keyword)
          THEN /\ rpc' = "ended"
               /\ UNCHANGED <<scraping_in_progress, pidx, all_results>>
          ELSE /\ all_results' = <<>>
               /\ pidx' = 1
               /\ IF driver = "none"
                  THEN scraping_in_progress' = FALSE /\ rpc' = "ended"
                  ELSE /\ scraping_in_progress' = TRUE
                       \* an exception of the progress bar leaves perform_scraping:
                       \* the call is before the `try`
                       /\ rpc' = IF progress_bar = "raises" THEN "ended" ELSE "legacy search"
    /\ UNCHANGED <<others, app, tried, all_profiles, profiles, failed_pages, processed>>

\* the search page is loaded and tested for a CAPTCHA
LegacySearch ==
    /\ rpc = "legacy search"
    /\ \E page \in {"results", "captcha", "raises"} : \E quit \in {"done", "raises"} :
          CASE page = "results" -> rpc' = "legacy pages" /\ UNCHANGED scraping_in_progress
            [] page = "raises"  -> rpc' = "legacy handler" /\ UNCHANGED scraping_in_progress
            [] page = "captcha" ->
                  IF quit = "done"
                  THEN scraping_in_progress' = FALSE /\ rpc' = "ended"
                  ELSE rpc' = "legacy handler" /\ UNCHANGED scraping_in_progress
    /\ UNCHANGED <<others, app, runs, tried, all_profiles, profiles, pidx, all_results,
                   failed_pages, processed>>

\* one turn of the loop over the pages
LegacyScrapePage ==
    /\ rpc = "legacy pages"
    /\ pidx <= pages_to_scrape
    /\ \/ \* reading the results raises
          /\ rpc' = "legacy handler"
          /\ UNCHANGED <<pidx, all_results>>
       \/ \* no results on the page: break
          /\ rpc' = "legacy finish"
          /\ UNCHANGED <<pidx, all_results>>
       \/ \* the results are processed; then the next page, or break
          \E records \in LegacyPageRecords(pidx) : \E next_button \in {"found", "missing"} :
             /\ all_results' = all_results \o records
             /\ pidx' = IF next_button = "found" THEN pidx + 1 ELSE pidx
             /\ rpc' = IF next_button = "found" /\ pidx + 1 <= pages_to_scrape
                       THEN "legacy pages" ELSE "legacy finish"
    /\ UNCHANGED <<others, app, runs, scraping_in_progress, tried, all_profiles, profiles,
                   failed_pages, processed>>

\* after the loop: driver.quit(), the flag is reset, the results are shown
LegacyFinish ==
    /\ rpc = "legacy finish"
    /\ \E quit \in {"done", "raises"} : \E display \in {"shown", "raises"} :
          IF quit = "raises"
          THEN rpc' = "legacy handler" /\ UNCHANGED scraping_in_progress
          ELSE /\ scraping_in_progress' = FALSE
               /\ rpc' = IF display = "raises" THEN "legacy handler" ELSE "ended"
    /\ UNCHANGED <<others, app, runs, tried, all_profiles, profiles, pidx, all_results,
                   failed_pages, processed>>

\* the `except` of perform_scraping: driver.quit(), then the flag is reset
LegacyHandler ==
    /\ rpc = "legacy handler"
    /\ rpc' = "ended"
    /\ \E quit \in {"done", "raises"} :
          IF quit = "done" THEN scraping_in_progress' = FALSE
          ELSE UNCHANGED scraping_in_progress
    /\ UNCHANGED <<others, app, runs, tried, all_profiles, profiles, pidx, all_results,
                   failed_pages, processed>>

RunNext ==
    \/ StartScraping \/ SearchProfiles \/ SetupBrowser \/ ProcessProfile \/ FinishRun
    \/ StartLegacy \/ LegacySearch \/ LegacyScrapePage \/ LegacyFinish \/ LegacyHandler
    \/ Rerun

SpecRun == RunInit /\ [][RunNext]_vars

---------------------------------------------------------------------------
(* Properties.  The predicates below state what the claims say about the   *)
(* results; they are written from the claims' wording and do not use the   *)
(* matcher.                                                                *)

AllIn(s, cls) == CharsOf(s) \subseteq cls

\* local@domain.tld: a non-empty local part, one "@", a non-empty domain, a
\* dot and a top-level domain of two or more letters
StrictEmailSyntax(e) ==
    \E a \in 2..Len(e) : \E d \in (a + 2)..(Len(e) - 2) :
        /\ Char(e, a) = "@"
        /\ Char(e, d) = "."
        /\ AllIn(SubSeq(e, 1, a - 1), EmailLocalCls)
        /\ AllIn(SubSeq(e, a + 1, d - 1), EmailDomainCls)
        /\ AllIn(SubSeq(e, d + 1, Len(e)), Alpha)

LocalPartOf(e) == SubSeq(e, 1, (CHOOSE a \in 1..Len(e) : Char(e, a) = "@") - 1)

Acceptable(e) ==
    /\ StrictEmailSyntax(e)
    /\ Len(e) >= 5 /\ Len(e) <= 50
    /\ CharsOf(LocalPartOf(e)) \cap Alpha # {}
    /\ \A d \in blocked_domains : ~ Contains(ToLower(e), d)
    /\ \A w \in placeholder_words : ~ Contains(ToLower(e), w)

\* the words of a text: the maximal runs without a space
WordStarts(t) == { k \in 1..Len(t) : Char(t, k) # " " /\ (k = 1 \/ Char(t, k - 1) = " ") }
WordAt(t, k) == SubSeq(t, k, k - 1 + RunLen(t, k - 1, PlusNot({" "}), -1))
SpaceWords(t) == { WordAt(t, k) : k \in WordStarts(t) }

\* digits only, a leading country code 91 removed
NormalizedPhone(p) ==
    LET d == Keep(p, Digit)
    IN  IF Len(d) = 12 /\ StartsWith(d, "91") THEN SubSeq(d, 3, 12) ELSE d

\* the same digit ten times in a row
HasRepeatedDigitRun(d) ==
    \E i \in 1..(Len(d) - 9) : Cardinality(CharsOf(SubSeq(d, i, i + 9))) = 1

ProfileBase == "https://www.linkedin.com/in/"

\* a non-empty slug of allowed characters, then at most one slash
IsSlugTail(rest) ==
    \/ rest # "" /\ AllIn(rest, SlugCls)
    \/ /\ Len(rest) >= 2
       /\ Char(rest, Len(rest)) = "/"
       /\ AllIn(SubSeq(rest, 1, Len(rest) - 1), SlugCls)

\* https://www.linkedin.com/in/<slug> or the same followed by one slash
IsProfileUrl(u) ==
    StartsWith(u, ProfileBase) /\ IsSlugTail(SubSeq(u, Len(ProfileBase) + 1, Len(u)))

\* ends with linkedin.com/in/<slug> or linkedin.com/in/<slug>/
EndsWithProfilePath(u) ==
    \E i \in 1..Len(u) :
        /\ StartsWith(SubSeq(u, i, Len(u)), "linkedin.com/in/")
        /\ IsSlugTail(SubSeq(u, i + Len("linkedin.com/in/"), Len(u)))

GoogleWrapper == "https://www.google.com/url?q="

\* a search-engine redirect wrapper whose query parameter is a profile URL
WrapsProfile(u) ==
    StartsWith(u, GoogleWrapper) /\ IsProfileUrl(SubSeq(u, Len(GoogleWrapper) + 1, Len(u)))

IsAbsolute(u) == StartsWith(u, "http://") \/ StartsWith(u, "https://")

---------------------------------------------------------------------------
(* Claims *)

C2_NoCaseInsensitiveDuplicates ==
    pc = "done" =>
        \A a \in emails : \A b \in emails : ToLower(a) = ToLower(b) => a = b

\* C3: no two entries of the result of extract_phones_aggressively normalize
\* to the same 10-digit number.
C3_NoNormalizedDuplicates ==
    pc = "done" =>
        \A a \in phones : \A b \in phones : NormalizedPhone(a) = NormalizedPhone(b) => a = b

\* C4, as stated: an address written with [at] and [dot] tokens is decoded;
\* "john [at] yahoo [dot] com" yields exactly {"john@yahoo.com"}.
C4_DotTokenDecoded ==
    (pc = "done" /\ text = "john [at] yahoo [dot] com ") => emails = {"john@yahoo.com"}

\* C4, amended: only the [at] token is decoded.  "john [at] yahoo.com", the
\* dot written literally, yields exactly {"john@yahoo.com"}, and a text that
\* holds it as its first words or after a space yields that address; with the
\* [dot] token, "john [at] yahoo [dot] com" yields no address.
C4_AtTokenDecoded ==
    pc = "done" =>
        /\ text = "john [at] yahoo.com " => emails = {"john@yahoo.com"}
        /\ (\E i \in 0..Len(text) :
                /\ StartsWith(SubSeq(text, i + 1, Len(text)), "john [at] yahoo.com ")
                /\ (i = 0 \/ Char(text, i) = " "))
              => "john@yahoo.com" \in emails
        /\ text = "john [at] yahoo [dot] com " => emails = {}

C4_Witness ==
    pc = "done" /\ text = "john [at] yahoo.com " /\ emails = {"john@yahoo.com"}

\* C5: every address returned by extract_emails_aggressively matches the
\* strict local@domain.tld syntax, is 5 to 50 characters long, has a letter
\* in its local part and holds, case-insensitively, no blocklist entry and no
\* placeholder keyword.
C5_ReturnedEmailsAcceptable ==
    pc = "done" => \A e \in emails : Acceptable(e)

\* a text with a blocklisted address and another one, which is returned
C5_Witness ==
    /\ pc = "done"
    /\ Contains(text, "noreply@linkedin.com")
    /\ emails = {"jo@b.co"}

\* C6: every entry returned by extract_phones_aggressively has, as digits,
\* 10 digits starting with 6-9 or 12 digits starting with 91 and a digit 6-9;
\* its digits hold none of the fabricated patterns; its last 10 digits hold
\* at least 4 distinct digits.
C6_ReturnedPhonesPlausible ==
    pc = "done" =>
        \A p \in phones :
            LET d == Keep(p, Digit) IN
            /\ \/ Len(d) = 10 /\ Char(d, 1) \in {"6", "7", "8", "9"}
               \/ Len(d) = 12 /\ SubSeq(d, 1, 2) = "91" /\ Char(d, 3) \in {"6", "7", "8", "9"}
            /\ ~ Contains(d, "1234567890")
            /\ ~ Contains(d, "9876543210")
            /\ ~ HasRepeatedDigitRun(d)
            /\ Cardinality(CharsOf(SubSeq(d, Len(d) - 9, Len(d)))) >= 4

\* a text with a number of 3 distinct digits and another one, which is returned
C6_Witness ==
    /\ pc = "done"
    /\ Contains(text, "9898787878")
    /\ phones = {"9876512345"}

\* C7: for every slug of allowed characters the validator accepts
\* https://www.linkedin.com/in/<slug> and the same URL followed by one slash.
C7_EverySlugAccepted ==
    (pc = "done" /\ IsProfileUrl(url)) => verdict = TRUE

\* C8: the validator accepts a URL only if it holds linkedin.com/in/
\* case-insensitively, holds none of the exclusion substrings and ends with
\* the profile path, a non-empty slug, at most one slash and nothing else.
C8_AcceptedOnlyIfStrictProfile ==
    (pc = "done" /\ verdict = TRUE) =>
        /\ Contains(ToLower(url), "linkedin.com/in/")
        /\ \A g \in garbage_patterns : ~ Contains(ToLower(url), g)
        /\ EndsWithProfilePath(url)

\* C9: every URL recorded in valid_profiles is absolute and is no redirect
\* wrapper any more.
C9_RecordedUrlsAbsoluteAndUnwrapped ==
    \A i \in DOMAIN valid_profiles :
        IsAbsolute(valid_profiles[i]) /\ ~ StartsWith(valid_profiles[i], "/url?")

\* C10, as stated: an acceptable address that is a word of the text is in
\* the result of extract_emails_aggressively.
C10_AcceptableWordReturned ==
    pc = "done" => \A w \in SpaceWords(text) : Acceptable(w) => w \in emails

\* C10, amended: an acceptable address that is a word of the text and starts
\* with a letter, a digit or an underscore is in the result.
C10_AcceptableWordStartingWithWordCharReturned ==
    pc = "done" =>
        \A w \in SpaceWords(text) :
            (Acceptable(w) /\ Char(w, 1) \in WordCls) => w \in emails

C10_Witness ==
    /\ pc = "done"
    /\ text = "Reach me at jane.doe123@gmail.com "
    /\ emails = {"jane.doe123@gmail.com"}

---------------------------------------------------------------------------
(* Addresses as they are written in a text *)

\* how many characters in a row, ending at position k and going backwards, are
\* in cls (inside = TRUE) or are not in cls (inside = FALSE)
RunBack(t, k, cls, inside) ==
    LET stop == { n \in 1..k : (Char(t, k - n + 1) \in cls) # inside }
    IN  IF stop = {} THEN k ELSE Min(stop) - 1

\* the same going forwards from position k
RunFwd(t, k, cls, inside) ==
    LET stop == { n \in 1..(Len(t) - k + 1) : (Char(t, k + n - 1) \in cls) # inside }
    IN  IF stop = {} THEN Len(t) - k + 1 ELSE Min(stop) - 1

\* the places where a text holds an "@" or an "[at]": <<position, length>>
Separators(t) ==
    { <<i, 1>> : i \in { j \in 1..Len(t) : Char(t, j) = "@" } }
        \cup { <<i, 4>> : i \in { j \in 1..(Len(t) - 3) : SubSeq(t, j, j + 3) = "[at]" } }

\* the address written around a separator: the word before it and the word
\* after it, whitespace next to the separator left out, joined by "@"
WrittenAddress(t, sep) ==
    LET i     == sep[1]
        w1    == RunBack(t, i - 1, SpaceCls, TRUE)
        l     == RunBack(t, i - 1 - w1, SpaceCls, FALSE)
        from  == i + sep[2]
        w2    == RunFwd(t, from, SpaceCls, TRUE)
        d     == RunFwd(t, from + w2, SpaceCls, FALSE)
    IN  SubSeq(t, i - w1 - l, i - w1 - 1) \o "@" \o SubSeq(t, from + w2, from + w2 + d - 1)

\* C11: an acceptable address written with whitespace around the "@", or with
\* "[at]" in place of the "@" (with or without whitespace around it), is
\* returned in the form local@domain.tld.
C11_WrittenAddressReturnedCanonical ==
    pc = "done" =>
        \A sep \in Separators(text) :
            Acceptable(WrittenAddress(text, sep)) => WrittenAddress(text, sep) \in emails

---------------------------------------------------------------------------
(* Phones as they stand in a text *)

Occurrences(t, p) == { i \in 1..(Len(t) - Len(p) + 1) : SubSeq(t, i, i + Len(p) - 1) = p }

\* the occurrence of p at position i has no digit right before or right after it
CompleteAt(t, i, p) ==
    /\ i = 1 \/ Char(t, i - 1) \notin Digit
    /\ i + Len(p) > Len(t) \/ Char(t, i + Len(p)) \notin Digit

\* C18: every returned phone is a complete number of the text: it stands
\* somewhere in the text with no digit right before it and none right after.
C18_ReturnedPhonesAreCompleteNumbers ==
    pc = "done" =>
        \A p \in phones : \E i \in Occurrences(text, p) : CompleteAt(text, i, p)

---------------------------------------------------------------------------
(* The host of a URL *)

SchemeOf(u) == IF StartsWith(u, "https://") THEN "https://" ELSE "http://"

\* the authority of an absolute URL: what follows the scheme, up to the first
\* "/", "?" or "#"
HostOf(u) ==
    LET rest == SubSeq(u, Len(SchemeOf(u)) + 1, Len(u))
    IN  SubSeq(rest, 1, RunFwd(rest, 1, {"/", "?", "#"}, FALSE))

EndsWith(s, suf) == Len(s) >= Len(suf) /\ SubSeq(s, Len(s) - Len(suf) + 1, Len(s)) = suf

HostIsLinkedIn(u) ==
    LET h == ToLower(HostOf(u))
    IN  h = "linkedin.com" \/ EndsWith(h, ".linkedin.com")

\* C19: every accepted absolute URL has linkedin.com or a subdomain of it as
\* its host.
C19_AcceptedUrlIsOnLinkedIn ==
    (idx > 0 /\ verdict = TRUE /\ IsAbsolute(url)) => HostIsLinkedIn(url)

---------------------------------------------------------------------------
(* Calls of the core functions *)

Extractors == { "extract_emails_aggressively", "extract_phones_aggressively" }

Ended(c) == c.stage \in {"returned", "raised"}

NoRepeats(l) == \A i, j \in DOMAIN l : l[i] = l[j] => i = j

\* C12: malformed, empty, missing or non-string input is nothing found: the
\* call returns false or an empty collection and raises nothing.
C12_BadInputIsNothingFound ==
    \A w \in Workers :
        (Ended(calls[w]) /\ (calls[w].argtype # "str" \/ calls[w].arg = ""))
            => (calls[w].stage = "returned" /\ calls[w].ret = <<>> /\ calls[w].ok = FALSE)

StringCallOfExtractor(c) == c.fn \in Extractors /\ c.argtype = "str"

ExtractorsRaiseNothing ==
    \A w \in Workers : StringCallOfExtractor(calls[w]) => calls[w].stage # "raised"

ExtractorsReturnNoRepeats ==
    \A w \in Workers :
        (StringCallOfExtractor(calls[w]) /\ calls[w].stage = "returned") => NoRepeats(calls[w].ret)

SameCall(c, d) == c.fn = d.fn /\ c.argtype = d.argtype /\ c.arg = d.arg

SameOutcome(c, d) ==
    /\ c.stage = d.stage
    /\ c.exc = d.exc
    /\ c.ok = d.ok
    /\ Range(c.ret) = Range(d.ret)

---------------------------------------------------------------------------
(* The search over the engines *)

FailedOutcomes == {"error", "empty"}

SameEngine(ps) == \A i, j \in DOMAIN ps : ps[i].engine = ps[j].engine

\* C15: the engines are tried in the order DuckDuckGo, Google, Bing; an
\* engine is tried only after every earlier one found nothing or failed; no
\* engine is tried after one that found a profile, so all returned profiles
\* come from one engine; when every engine fails or finds nothing the result
\* is empty.
C15_EnginesInOrderFirstSuccessWins ==
    /\ \A i \in DOMAIN tried : tried[i].engine = <<"DuckDuckGo", "Google", "Bing">>[i]
    /\ \A i \in DOMAIN tried : \A j \in 1..(i - 1) : tried[j].outcome \in FailedOutcomes
    /\ SameEngine(all_profiles) /\ SameEngine(profiles)
    /\ \A i \in DOMAIN all_profiles : all_profiles[i].engine = tried[Len(tried)].engine
    /\ rpc = "searched" =>
          IF \A i \in DOMAIN tried : tried[i].outcome \in FailedOutcomes
          THEN Len(tried) = 3 /\ profiles = <<>>
          ELSE profiles # <<>> /\ tried[Len(tried)].outcome = "profiles"

\* the first engine failed, the second found nothing, the third found two
\* profiles, which were returned
C15_Witness ==
    /\ rpc = "searched"
    /\ Len(tried) = 3
    /\ tried[1].outcome = "error"
    /\ tried[2].outcome = "empty"
    /\ tried[3].outcome = "profiles"
    /\ Len(profiles) = 2
    /\ profiles[1].engine = "Bing"

---------------------------------------------------------------------------
(* The scraping run *)

IsExtracted(e) == e.outcome = "extracted"

FirstOf(ps, n) == SubSeq(ps, 1, IF Len(ps) < n THEN Len(ps) ELSE n)

\* C16: in scrape_search_results every one of the first
\* max_profiles_per_page profiles whose content was extracted without an
\* exception has exactly one record, also when nothing was found on it; the
\* counts of the record are the numbers of emails and phones extracted; the
\* profiles beyond the limit have no record.
C16_OneRecordPerExtractedProfile ==
    app = "app.py" =>
        LET extracted == SelectSeq(processed, IsExtracted) IN
        /\ Len(all_results) = Len(extracted)
        /\ \A i \in DOMAIN extracted :
              /\ all_results[i].Profile_URL = extracted[i].url
              /\ all_results[i].Email_Count = Cardinality(extracted[i].emails)
              /\ all_results[i].Phone_Count = Cardinality(extracted[i].phones)
        /\ \A i, j \in DOMAIN all_results :
              all_results[i].Profile_URL = all_results[j].Profile_URL => i = j
        /\ Len(processed) <= max_profiles_per_page
        /\ \A i \in DOMAIN processed : processed[i].url = profiles[i].url
        /\ \A k \in DOMAIN profiles : \A i \in DOMAIN all_results :
              k > max_profiles_per_page => all_results[i].Profile_URL # profiles[k].url
        /\ (rpc = "ended" /\ processed # <<>>)
              => Len(processed) = Len(FirstOf(profiles, max_profiles_per_page))

\* a run over four profiles that ended with two records, one of them without
\* any contact, and one profile whose extraction raised
C16_Witness ==
    /\ app = "app.py"
    /\ rpc = "ended"
    /\ Len(profiles) = 4
    /\ Len(processed) = 3
    /\ Len(all_results) = 2
    /\ \E i \in DOMAIN all_results :
          all_results[i].Email_Count = 0 /\ all_results[i].Phone_Count = 0
    /\ \E i \in DOMAIN all_results :
          all_results[i].Email_Count = 2 /\ all_results[i].Phone_Count = 1
    /\ \E i \in DOMAIN processed : processed[i].outcome = "raised"

\* C17: a run starts only while scraping_in_progress is false, and after a
\* run has ended, in whatever way, scraping_in_progress is false again.
C17_FlagFalseAfterEveryRun ==
    /\ [][(rpc = "idle" /\ rpc' # "idle") => ~ scraping_in_progress]_vars
    /\ [](rpc = "ended" => ~ scraping_in_progress)

====
